---- MODULE Spec2Model ----
(***************************************************************************)
(* ProjectHandler of the Linear MCP server (src/core/types/tool.types.ts): *)
(* handleCreateProjectWithIssues, handleGetProject, handleSearchProjects.  *)
(* One invocation is in flight at a time; every await of the handler is a  *)
(* position of pc at which the gateway answers.                            *)
(***************************************************************************)
EXTENDS Naturals, Sequences, FiniteSets, TLC

VARIABLES session, pc, tool, args, steps, calls, upstream, gw, outcome

vars == <<session, pc, tool, args, steps, calls, upstream, gw, outcome>>

\* Longest issues array of an argument object.
MaxIssues == 2
\* Longest node list of a gateway answer.
MaxNodes == 2
\* args.first || 50
DefaultFirst == 50

(***************************************************************************)
(* JavaScript values: a type tag and a payload. A string is the sequence   *)
(* of its tokens, the empty string the empty sequence.                     *)
(***************************************************************************)
Undef == [t |-> "undefined", v |-> <<>>]
Str(s) == [t |-> "string", v |-> s]
Arr(s) == [t |-> "array", v |-> s]
Bool(b) == [t |-> "boolean", v |-> IF b THEN <<"true">> ELSE <<>>]

\* !!x
Truthy(x) ==
  CASE x.t = "undefined" -> FALSE
    [] x.t = "string" -> Len(x.v) > 0
    [] x.t = "boolean" -> x.v # <<>>
    [] OTHER -> TRUE

\* Array.isArray(x)
IsArray(x) == x.t = "array"

\* x.length > 0 (undefined > 0 is false for a value without a length)
LengthPositive(x) == x.t \in {"string", "array"} /\ Len(x.v) > 0

Range(s) == {s[i] : i \in 1..Len(s)}

\* message.includes(pattern), on token sequences
Includes(message, pattern) ==
  \E i \in 0..Len(message) :
    /\ i + Len(pattern) <= Len(message)
    /\ \A j \in 1..Len(pattern) : message[i + j] = pattern[j]

SeqsUpTo(S, n) == UNION {[1..k -> S] : k \in 0..n}

(***************************************************************************)
(* Errors. origin is the step that raised it, isError is instanceof Error. *)
(***************************************************************************)
NoErr == [origin |-> "none", isError |-> FALSE, message |-> <<>>]
Err(origin, message) == [origin |-> origin, isError |-> TRUE, message |-> message]

(***************************************************************************)
(* BaseHandler: verifyAuth, validateRequiredParams, handleError and the    *)
(* two response constructors.                                              *)
(***************************************************************************)
AuthError == Err("AuthError", <<"Not authenticated">>)

\* currentClient(): a ready client, or AuthError when no valid session exists
verifyAuth(sess) == IF sess THEN NoErr ELSE AuthError

\* the first declared required key that is absent or undefined
validateRequiredParams(a, required) ==
  LET missing == SelectSeq(required, LAMBDA k : a[k].t = "undefined")
  IN IF missing = <<>> THEN NoErr
     ELSE Err("ValidationError", <<"missing field ", missing[1]>>)

NoOutcome == [kind |-> "none", text |-> <<>>, errKind |-> "none", payload |-> <<>>]

\* createResponse(text)
createResponse(text) ==
  [kind |-> "text", text |-> text, errKind |-> "none", payload |-> <<>>]

\* createJsonResponse(result)
createJsonResponse(result) ==
  [kind |-> "json", text |-> <<>>, errKind |-> "none", payload |-> <<result>>]

\* handleError(error, operation): re-raised as one error record that keeps the
\* kind and the message; an error BaseHandler did not raise itself gets a
\* wrapper naming the operation being attempted
handleError(error, operation) ==
  [kind |-> "error",
   text |-> IF error.origin \in {"AuthError", "ValidationError"} THEN error.message
            ELSE <<"Failed to ", operation, ": ">> \o error.message,
   errKind |-> error.origin, payload |-> <<>>]

(***************************************************************************)
(* Argument objects.                                                       *)
(***************************************************************************)
NoArgs == [none |-> TRUE]

TeamIdsValues == {Undef, Arr(<<>>), Arr(<<"team-1">>), Str(<<"team-1">>)}

ProjectValues ==
  {[t |-> "undefined", name |-> Undef, teamIds |-> Undef]} \cup
  [t : {"object"}, name : {Undef, Str(<<"Q1 Planning">>)}, teamIds : TeamIdsValues]

IssueValues ==
  [title : {Undef, Str(<<"Setup">>)},
   description : {Undef, Str(<<"init">>)},
   teamId : {Undef, Str(<<>>), Str(<<"team-1">>)}]

\* issues: absent, a value that is no array, or an array of issue objects
IssuesValues ==
  {Undef, [t |-> "object", v |-> <<>>]} \cup
  {Arr(s) : s \in SeqsUpTo(IssueValues, MaxIssues)}

CreateArgs == [project : ProjectValues, issues : IssuesValues]

(***************************************************************************)
(* handleCreateProjectWithIssues                                           *)
(***************************************************************************)
CreateOperation == "create project with issues"

TeamIdsMessage ==
  <<"Project requires ", "teamIds", " as an array with at least one team ID.",
    "Example:", "project", "name", "teamIds", "issues", "title", "teamId">>

IssuesMessage ==
  <<"Issues parameter must be an array of issue objects.",
    "Example:", "issues", "title", "teamId">>

IssueTeamIdMessage(index) ==
  <<"Issue at index ", ToString(index), " is missing required ", "teamId",
    "Each issue must have a teamId that matches one of the project teamIds.">>

\* args.issues.forEach: the first issue without a truthy teamId throws
FirstIssueWithoutTeamId(issues) ==
  LET bad == {i \in 1..Len(issues) : ~Truthy(issues[i].teamId)}
  IN IF bad = {} THEN 0 ELSE CHOOSE i \in bad : \A j \in bad : i <= j

\* lines 510-542
CreateValidation(a) ==
  LET r == validateRequiredParams(a, <<"project", "issues">>)
  IN IF r # NoErr THEN r
     ELSE IF \/ ~Truthy(a.project.teamIds)
             \/ ~IsArray(a.project.teamIds)
             \/ Len(a.project.teamIds.v) = 0
       THEN Err("Error", TeamIdsMessage)
     ELSE IF ~IsArray(a.issues)
       THEN Err("Error", IssuesMessage)
     ELSE LET i == FirstIssueWithoutTeamId(a.issues.v)
          IN IF i # 0 THEN Err("Error", IssueTeamIdMessage(i - 1)) ELSE NoErr

\* A handler that validates its arguments before it asks for the client.
CreatePrologueValidatesFirst(sess, a) ==
  IF CreateValidation(a) # NoErr
    THEN [steps |-> <<"validate">>, error |-> CreateValidation(a)]
  ELSE IF verifyAuth(sess) # NoErr
    THEN [steps |-> <<"validate", "verifyAuth">>, error |-> verifyAuth(sess)]
  ELSE [steps |-> <<"validate", "verifyAuth", "createProjectWithIssues">>,
        error |-> NoErr]

\* lines 509-547: what the handler does before its first await
CreatePrologue(sess, a) ==
  IF verifyAuth(sess) # NoErr
    THEN [steps |-> <<"verifyAuth">>, error |-> verifyAuth(sess)]
  ELSE IF CreateValidation(a) # NoErr
    THEN [steps |-> <<"verifyAuth", "validate">>, error |-> CreateValidation(a)]
  ELSE [steps |-> <<"verifyAuth", "validate", "createProjectWithIssues">>,
        error |-> NoErr]

\* The client's state during createProjectWithIssues, and its answer.
NoGw == [project |-> "none", batch |-> "none", created |-> 0, error |-> NoErr,
         found |-> "none", has |-> FALSE, nodes |-> <<>>]

ProjectId == "project-1"
ProjectUrl == "https://linear.app/project-1"

UpstreamMessages ==
  {<<"Entity not found", ": ", "Project">>,
   <<"Could not find referenced Project">>,
   <<"entity not found">>,
   <<"Network error">>}

\* What the gateway raises: Error objects, and one thrown value that is no Error
UpstreamErrors ==
  {Err("Upstream", m) : m \in UpstreamMessages} \cup
  {[origin |-> "Upstream", isError |-> FALSE, message |-> <<"Entity not found">>]}

RECURSIVE IssueLines(_)
\* lines 565-567: one line per created issue
IssueLines(n) ==
  IF n = 0 THEN <<>>
  ELSE IssueLines(n - 1) \o <<"- ", "ISS-", ToString(n), "issue url ", ToString(n)>>

ProjectName(a) == IF a.project.name.t = "string" THEN a.project.name.v ELSE <<"undefined">>

\* lines 553-570
CreateSuccessText(a, g) ==
  LET issuesCreated == IF g.batch = "none" THEN 0 ELSE g.created
  IN <<"Successfully created project with issues", "Project: ">> \o ProjectName(a)
       \o <<"Project URL: ", ProjectUrl>>
       \o (IF issuesCreated > 0
             THEN <<"Issues created: ", ToString(issuesCreated)>> \o IssueLines(issuesCreated)
             ELSE <<>>)

\* A check of the issue batch alone, which lets a failed project step pass.
CreateFailedIgnoresProject(g) == g.batch # "none" /\ g.batch # "ok"

\* line 549
CreateFailed(g) ==
  g.project # "ok" \/ (g.batch # "none" /\ g.batch # "ok")

\* lines 571-573
CreateCatch(error) == handleError(error, CreateOperation)

\* lines 549-573: what the handler does with the client's answer
CreateSettle(a, g) ==
  IF g.error # NoErr THEN CreateCatch(g.error)
  ELSE IF CreateFailed(g)
    THEN CreateCatch(Err("Error", <<"Failed to create project or issues">>))
  ELSE createResponse(CreateSuccessText(a, g))

(***************************************************************************)
(* handleGetProject                                                        *)
(***************************************************************************)
GetOperation == "get project info"

GetArgs ==
  [id : {Undef, Str(<<"project-1">>), Str(<<"missing-9">>)},
   includeIssues : {Undef, Bool(FALSE), Bool(TRUE), Str(<<"yes">>)}]

\* lines 581-587: what the handler does before its first await
GetPrologue(sess, a) ==
  IF verifyAuth(sess) # NoErr
    THEN [steps |-> <<"verifyAuth">>, error |-> verifyAuth(sess)]
  ELSE IF validateRequiredParams(a, <<"id">>) # NoErr
    THEN [steps |-> <<"verifyAuth", "validate">>,
          error |-> validateRequiredParams(a, <<"id">>)]
  ELSE [steps |-> <<"verifyAuth", "validate", "getProject">>, error |-> NoErr]

\* getProject's answers: null, an object without a project, one with a project
GetProjectResults == {"null", "empty", "project"}

\* searchIssues' answers: no issues.nodes, or a node list (issue i is node i)
IssueLists == {[i \in 1..n |-> i] : n \in 0..MaxNodes}
SearchIssuesResults ==
  {[has |-> FALSE, nodes |-> <<>>]} \cup {[has |-> TRUE, nodes |-> l] : l \in IssueLists}

\* A handler that fetches the issues whether or not the caller asked.
WantsIssuesUnasked(a, found) == found = "project"

\* line 590
WantsIssues(a, found) == Truthy(a.includeIssues) /\ found = "project"

\* lines 597-602: the result, with the issue list attached when there is one
GetPayload(found, issues) == [found |-> found, issues |-> issues]

NoIssues == [has |-> FALSE, nodes |-> <<>>]

\* A match on the first of the two messages only.
IsNotFoundEntityOnly(error) ==
  error.isError /\ Includes(error.message, <<"Entity not found">>)

\* lines 605-609
IsNotFound(error) ==
  /\ error.isError
  /\ \/ Includes(error.message, <<"Entity not found">>)
     \/ Includes(error.message, <<"Could not find referenced Project">>)

\* An inner catch that answers every error with the not-found text.
GetCatchEveryError(a, error) ==
  createResponse(<<"Project with ID ">> \o a.id.v \o <<" does not exist">>)

\* lines 603-618: the inner catch, and the outer one behind it
GetCatch(a, error) ==
  IF IsNotFound(error)
    THEN createResponse(<<"Project with ID ">> \o a.id.v \o <<" does not exist">>)
  ELSE handleError(error, GetOperation)

(***************************************************************************)
(* handleSearchProjects                                                    *)
(***************************************************************************)
SearchOperation == "search projects"

SearchArgs ==
  [name : {Undef, Str(<<>>), Str(<<"Q1">>)},
   teamIds : TeamIdsValues \cup {Arr(<<"team-1", "team-2">>)},
   first : {0, 10},
   includeArchived : {Undef, Bool(FALSE), Bool(TRUE)}]

SearchMessage ==
  <<"At least a project ", "name", " or ", "teamIds", " must be provided for search">>

\* A check that asks for name and teamIds together.
SearchValidationRequiresBoth(a) ==
  IF ~Truthy(a.name) \/ (~Truthy(a.teamIds) \/ ~IsArray(a.teamIds) \/ Len(a.teamIds.v) = 0)
    THEN Err("Error", SearchMessage)
  ELSE NoErr

\* lines 629-631
SearchValidation(a) ==
  IF ~Truthy(a.name) /\ (~Truthy(a.teamIds) \/ ~IsArray(a.teamIds) \/ Len(a.teamIds.v) = 0)
    THEN Err("Error", SearchMessage)
  ELSE NoErr

NoFilter == [name |-> <<>>, team |-> <<>>]

\* lines 634-642: a clause is a one-element sequence, a missing clause empty
BuildFilter(a) ==
  [name |-> IF Truthy(a.name) THEN <<a.name.v>> ELSE <<>>,
   team |-> IF Truthy(a.teamIds) /\ LengthPositive(a.teamIds) THEN <<a.teamIds.v>> ELSE <<>>]

\* line 644 (first: 0 stands for a missing or zero limit)
First(a) == IF a.first = 0 THEN DefaultFirst ELSE a.first

\* lines 626-647: what the handler does before its first await
SearchPrologue(sess, a) ==
  IF verifyAuth(sess) # NoErr
    THEN [steps |-> <<"verifyAuth">>, error |-> verifyAuth(sess)]
  ELSE IF SearchValidation(a) # NoErr
    THEN [steps |-> <<"verifyAuth", "validate">>, error |-> SearchValidation(a)]
  ELSE [steps |-> <<"verifyAuth", "validate", "searchProjects">>, error |-> NoErr]

\* searchProjects' answers: no projects field, or a node list; node i of the
\* list has id i, and state "" stands for a project without a state
NodeStates == {"Archived", "Canceled", "Completed", "started", "archived", ""}
NodeLists ==
  UNION {{[i \in 1..n |-> [id |-> i, state |-> f[i]]] : f \in [1..n -> NodeStates]} :
         n \in 0..MaxNodes}
SearchProjectsResults ==
  {[has |-> FALSE, nodes |-> <<>>]} \cup {[has |-> TRUE, nodes |-> l] : l \in NodeLists}

\* A filter that forgets the "Completed" label.
NotArchivedForgetsCompleted(project) == project.state \notin {"Archived", "Canceled"}

\* line 654
NotArchived(project) == project.state \notin {"Archived", "Canceled", "Completed"}

\* lines 650-657
FilterArchived(a, r) ==
  IF ~Truthy(a.includeArchived) /\ r.has
    THEN [r EXCEPT !.nodes = SelectSeq(r.nodes, NotArchived)]
  ELSE r

\* A handler without the empty-result branch.
SearchSettleAlwaysJson(a, r) == createJsonResponse(FilterArchived(a, r))

\* lines 659-665
SearchSettle(a, r) ==
  LET result == FilterArchived(a, r)
  IN IF result.has /\ Len(result.nodes) = 0
       THEN createResponse(<<"No projects found matching the search criteria ">>
                             \o (IF Truthy(a.name) THEN a.name.v ELSE <<>>))
     ELSE createJsonResponse(result)

\* line 667
SearchCatch(error) == handleError(error, SearchOperation)

(***************************************************************************)
(* The state machine.                                                      *)
(*   session   whether the Session/Auth Provider holds a valid session     *)
(*   pc        "idle", the await the handler is suspended at, or "done"    *)
(*   tool      the handler invoked                                         *)
(*   args      its argument object                                         *)
(*   steps     what the handler has done so far, in order                  *)
(*   calls     the Gateway Client calls the handler has made, in order     *)
(*   upstream  the requests the client sent for createProjectWithIssues    *)
(*   gw        what the gateway has answered so far                        *)
(*   outcome   the response returned or the error raised                   *)
(***************************************************************************)
Call(op, a) ==
  [op |-> op,
   filter |-> IF op = "searchProjects" THEN BuildFilter(a) ELSE NoFilter,
   first |-> IF op = "searchProjects" THEN First(a) ELSE 0]

Init ==
  /\ session \in BOOLEAN
  /\ pc = "idle"
  /\ tool = "none"
  /\ args = NoArgs
  /\ steps = <<>>
  /\ calls = <<>>
  /\ upstream = <<>>
  /\ gw = NoGw
  /\ outcome = NoOutcome

\* The Auth handlers are the only writers of the session. A handler reads it
\* once, in verifyAuth, so a change during an invocation is not observable.
Login ==
  /\ pc = "idle" /\ ~session
  /\ session' = TRUE
  /\ UNCHANGED <<pc, tool, args, steps, calls, upstream, gw, outcome>>

Logout ==
  /\ pc = "idle" /\ session
  /\ session' = FALSE
  /\ UNCHANGED <<pc, tool, args, steps, calls, upstream, gw, outcome>>

\* line 507: the handler runs to its first await, or to its catch
InvokeCreate ==
  /\ pc = "idle"
  /\ \E a \in CreateArgs :
       LET p == CreatePrologue(session, a)
       IN /\ tool' = "create"
          /\ args' = a
          /\ steps' = p.steps
          /\ IF p.error # NoErr
               THEN /\ pc' = "done"
                    /\ calls' = <<>>
                    /\ outcome' = CreateCatch(p.error)
               ELSE /\ pc' = "createProject"
                    /\ calls' = <<Call("createProjectWithIssues", a)>>
                    /\ outcome' = NoOutcome
  /\ UNCHANGED <<session, upstream, gw>>

\* The client creates the project first and stops there when that fails.
ClientCreateProject ==
  /\ pc = "createProject"
  /\ \/ \E r \in {"ok", "failed"} :
          /\ upstream' = Append(upstream, [op |-> "createProject", result |-> r])
          /\ gw' = [gw EXCEPT !.project = r]
          /\ pc' = IF r = "ok" THEN "createIssues" ELSE "createReturned"
     \/ \E e \in UpstreamErrors :
          /\ upstream' = Append(upstream, [op |-> "createProject", result |-> "throws"])
          /\ gw' = [gw EXCEPT !.error = e]
          /\ pc' = "createReturned"
  /\ UNCHANGED <<session, tool, args, steps, calls, outcome>>

\* Then it creates the issues in one batched call scoped to the project.
ClientCreateIssues ==
  /\ pc = "createIssues"
  /\ \/ \E n \in 0..Len(args.issues.v) :
          /\ upstream' = Append(upstream, [op |-> "createIssues", result |-> "ok"])
          /\ gw' = [gw EXCEPT !.batch = "ok", !.created = n]
     \/ /\ upstream' = Append(upstream, [op |-> "createIssues", result |-> "failed"])
        /\ gw' = [gw EXCEPT !.batch = "failed"]
     \/ /\ upstream' = Append(upstream, [op |-> "createIssues", result |-> "absent"])
        /\ gw' = gw
     \/ \E e \in UpstreamErrors :
          /\ upstream' = Append(upstream, [op |-> "createIssues", result |-> "throws"])
          /\ gw' = [gw EXCEPT !.error = e]
  /\ pc' = "createReturned"
  /\ UNCHANGED <<session, tool, args, steps, calls, outcome>>

\* A handler that calls the client once more when the first call failed.
CreateResumeRetries ==
  /\ pc = "createReturned"
  /\ IF CreateSettle(args, gw).kind = "error" /\ Len(calls) < 2
       THEN /\ pc' = "createProject"
            /\ calls' = Append(calls, Call("createProjectWithIssues", args))
            /\ gw' = NoGw
            /\ outcome' = outcome
       ELSE /\ pc' = "done"
            /\ outcome' = CreateSettle(args, gw)
            /\ UNCHANGED <<calls, gw>>
  /\ UNCHANGED <<session, tool, args, steps, upstream>>

\* lines 549-573: the await of line 544 resumes
CreateResume ==
  /\ pc = "createReturned"
  /\ outcome' = CreateSettle(args, gw)
  /\ pc' = "done"
  /\ UNCHANGED <<session, tool, args, steps, calls, upstream, gw>>

\* line 579
InvokeGet ==
  /\ pc = "idle"
  /\ \E a \in GetArgs :
       LET p == GetPrologue(session, a)
       IN /\ tool' = "get"
          /\ args' = a
          /\ steps' = p.steps
          /\ IF p.error # NoErr
               THEN /\ pc' = "done"
                    /\ calls' = <<>>
                    /\ outcome' = handleError(p.error, GetOperation)
               ELSE /\ pc' = "getProject"
                    /\ calls' = <<Call("getProject", a)>>
                    /\ outcome' = NoOutcome
  /\ UNCHANGED <<session, upstream, gw>>

\* lines 587-602: getProject answers
GetProjectReturns ==
  /\ pc = "getProject"
  /\ \E r \in GetProjectResults :
       /\ gw' = [gw EXCEPT !.found = r]
       /\ IF WantsIssues(args, r)
            THEN /\ pc' = "searchIssues"
                 /\ steps' = Append(steps, "searchIssues")
                 /\ calls' = Append(calls, Call("searchIssues", args))
                 /\ outcome' = outcome
            ELSE /\ pc' = "done"
                 /\ outcome' = createJsonResponse(GetPayload(r, NoIssues))
                 /\ UNCHANGED <<steps, calls>>
  /\ UNCHANGED <<session, tool, args, upstream>>

\* lines 603-618: getProject raises
GetProjectThrows ==
  /\ pc = "getProject"
  /\ \E e \in UpstreamErrors :
       /\ gw' = [gw EXCEPT !.error = e]
       /\ outcome' = GetCatch(args, e)
  /\ pc' = "done"
  /\ UNCHANGED <<session, tool, args, steps, calls, upstream>>

\* lines 592-602: searchIssues answers
SearchIssuesReturns ==
  /\ pc = "searchIssues"
  /\ \E r \in SearchIssuesResults :
       /\ gw' = [gw EXCEPT !.has = r.has, !.nodes = r.nodes]
       /\ outcome' = createJsonResponse(GetPayload(gw.found, r))
  /\ pc' = "done"
  /\ UNCHANGED <<session, tool, args, steps, calls, upstream>>

\* lines 603-618: searchIssues raises
SearchIssuesThrows ==
  /\ pc = "searchIssues"
  /\ \E e \in UpstreamErrors :
       /\ gw' = [gw EXCEPT !.error = e]
       /\ outcome' = GetCatch(args, e)
  /\ pc' = "done"
  /\ UNCHANGED <<session, tool, args, steps, calls, upstream>>

\* line 624
InvokeSearch ==
  /\ pc = "idle"
  /\ \E a \in SearchArgs :
       LET p == SearchPrologue(session, a)
       IN /\ tool' = "search"
          /\ args' = a
          /\ steps' = p.steps
          /\ IF p.error # NoErr
               THEN /\ pc' = "done"
                    /\ calls' = <<>>
                    /\ outcome' = SearchCatch(p.error)
               ELSE /\ pc' = "searchProjects"
                    /\ calls' = <<Call("searchProjects", a)>>
                    /\ outcome' = NoOutcome
  /\ UNCHANGED <<session, upstream, gw>>

\* lines 647-665: searchProjects answers
SearchProjectsReturns ==
  /\ pc = "searchProjects"
  /\ \E r \in SearchProjectsResults :
       /\ gw' = [gw EXCEPT !.has = r.has, !.nodes = r.nodes, !.found = "answered"]
       /\ outcome' = SearchSettle(args, r)
  /\ pc' = "done"
  /\ UNCHANGED <<session, tool, args, steps, calls, upstream>>

\* lines 666-668: searchProjects raises
SearchProjectsThrows ==
  /\ pc = "searchProjects"
  /\ \E e \in UpstreamErrors :
       /\ gw' = [gw EXCEPT !.error = e]
       /\ outcome' = SearchCatch(e)
  /\ pc' = "done"
  /\ UNCHANGED <<session, tool, args, steps, calls, upstream>>

\* The invocation is consumed and discarded; none is retained across calls.
Finish ==
  /\ pc = "done"
  /\ pc' = "idle"
  /\ tool' = "none"
  /\ args' = NoArgs
  /\ steps' = <<>>
  /\ calls' = <<>>
  /\ upstream' = <<>>
  /\ gw' = NoGw
  /\ outcome' = NoOutcome
  /\ UNCHANGED session

Next ==
  \/ Login
  \/ Logout
  \/ InvokeCreate
  \/ ClientCreateProject
  \/ ClientCreateIssues
  \/ CreateResume
  \/ InvokeGet
  \/ GetProjectReturns
  \/ GetProjectThrows
  \/ SearchIssuesReturns
  \/ SearchIssuesThrows
  \/ InvokeSearch
  \/ SearchProjectsReturns
  \/ SearchProjectsThrows
  \/ Finish

Spec == Init /\ [][Next]_vars

(***************************************************************************)
(* Properties.                                                             *)
(***************************************************************************)

\* C1: with no valid session every handler, whatever its arguments, fails
\* with the auth error before any argument is validated, and makes no
\* Gateway Client call. (The session changes only between invocations, so
\* ~session during an invocation is the session verifyAuth saw.)
AuthBeforeArguments ==
  (pc # "idle" /\ ~session) =>
    /\ pc = "done"
    /\ outcome.kind = "error"
    /\ outcome.errKind = "AuthError"
    /\ steps = <<"verifyAuth">>
    /\ calls = <<>>
    /\ upstream = <<>>

\* C1 witness: an invocation with invalid arguments and no session has ended
\* in the auth error.
AuthBeforeArgumentsWitness ==
  /\ pc = "done" /\ ~session /\ tool = "create"
  /\ CreateValidation(args) # NoErr
  /\ outcome.errKind = "AuthError"

\* The fields the schema of create-project-with-issues declares required
\* (lines 106, 126, 131) that the argument object lacks.
MissingCreateFields(a) ==
  {k \in {"project", "issues"} : a[k].t = "undefined"}
    \cup (IF a.project.t = "undefined" THEN {}
          ELSE {k \in {"name", "teamIds"} : a.project[k].t = "undefined"})
    \cup (IF a.issues.t # "array" THEN {}
          ELSE {k \in {"title", "description", "teamId"} :
                  \E i \in 1..Len(a.issues.v) : a.issues.v[i][k].t = "undefined"})

\* C2: an invocation with a missing required field (the nested ones of
\* create-project-with-issues included) ends in a validation error naming a
\* missing field, and no Gateway Client call is made.
MissingFieldRejected ==
  (tool = "create" /\ session /\ pc # "idle" /\ MissingCreateFields(args) # {}) =>
    /\ calls = <<>>
    /\ pc = "done"
    /\ outcome.kind = "error"
    /\ \E k \in MissingCreateFields(args) : k \in Range(outcome.text)

IssueCreationAt(i) == upstream[i].op = "createIssues"

\* C3: an issue-creation call is preceded by a project-creation step that
\* reported success; when the project step reports success = false no
\* issue-creation call is made and the invocation ends in failure.
ProjectBeforeIssues ==
  /\ \A i \in 1..Len(upstream) :
       IssueCreationAt(i) =>
         \E j \in 1..(i - 1) :
           upstream[j].op = "createProject" /\ upstream[j].result = "ok"
  /\ (tool = "create" /\ gw.project = "failed") =>
       /\ \A i \in 1..Len(upstream) : ~IssueCreationAt(i)
       /\ pc \in {"createReturned", "done"}
       /\ (pc = "done" => outcome.kind = "error")

\* C3 witness: the project step failed and the invocation has ended in failure.
ProjectBeforeIssuesWitness ==
  /\ pc = "done" /\ tool = "create" /\ gw.project = "failed"
  /\ Len(upstream) = 1 /\ outcome.kind = "error"

\* C4: when the project step succeeds and the issue batch step reports
\* success = false, the raised error names the created project's identifier
\* and URL.
PartialFailureNamesProject ==
  (pc = "done" /\ tool = "create" /\ gw.project = "ok" /\ gw.batch = "failed") =>
    /\ outcome.kind = "error"
    /\ ProjectId \in Range(outcome.text)
    /\ ProjectUrl \in Range(outcome.text)

\* C5: the success text is returned only when the project step reported
\* success and, for a non-empty requested issues list, the issue step
\* reported success.
SuccessHidesNoFailure ==
  (/\ pc = "done" /\ tool = "create" /\ outcome.kind = "text"
   /\ "Successfully created project with issues" \in Range(outcome.text)) =>
    /\ gw.project = "ok"
    /\ (Len(args.issues.v) > 0 => gw.batch = "ok")

\* What the claims about the archived-state filter expect of a gateway list.
ExpectedProjects ==
  IF args.includeArchived = Bool(TRUE) THEN gw.nodes
  ELSE SelectSeq(gw.nodes,
                 LAMBDA p : p.state # "Archived" /\ p.state # "Canceled"
                              /\ p.state # "Completed")

ReturnedProjects ==
  IF outcome.kind = "json" THEN outcome.payload[1].nodes ELSE <<>>

SearchAnsweredWithList ==
  pc = "done" /\ tool = "search" /\ gw.found = "answered" /\ gw.has

\* C6: for every gateway result list, with includeArchived unset or false
\* the returned projects are exactly the gateway's projects whose state is
\* none of "Archived", "Canceled", "Completed", in the original order; with
\* includeArchived true the returned list is the gateway's list.
ArchivedExcluded ==
  SearchAnsweredWithList =>
    /\ outcome.kind \in {"json", "text"}
    /\ ReturnedProjects = ExpectedProjects

\* C6 witness: a list with an archived project before a live one came back
\* and only the live one was returned.
ArchivedExcludedWitness ==
  /\ SearchAnsweredWithList /\ args.includeArchived = Undef
  /\ Len(gw.nodes) = 2
  /\ gw.nodes[1].state = "Completed" /\ gw.nodes[2].state = "started"
  /\ outcome.kind = "json" /\ Len(outcome.payload[1].nodes) = 1

GetProjectRaisedNotFound ==
  /\ pc = "done" /\ tool = "get" /\ gw.found = "none"
  /\ gw.error.isError
  /\ \E i \in 1..Len(gw.error.message) :
       gw.error.message[i] \in {"Entity not found", "Could not find referenced Project"}

\* C8: get-project with an identifier that does not exist upstream returns
\* the text 'Project with ID "<id>" does not exist' with the requested id
\* and raises nothing.
NotFoundIsText ==
  GetProjectRaisedNotFound =>
    /\ outcome.kind = "text"
    /\ outcome.text = <<"Project with ID ", args.id.v[1], " does not exist">>

\* C8 witness: getProject raised 'Could not find referenced Project' and the
\* text response was returned.
NotFoundIsTextWitness ==
  /\ GetProjectRaisedNotFound
  /\ gw.error.message = <<"Could not find referenced Project">>
  /\ outcome.kind = "text"

Count(s, op) == Cardinality({i \in 1..Len(s) : s[i].op = op})

CreateStepFailed ==
  gw.error # NoErr \/ gw.project = "failed" \/ gw.batch = "failed"

\* C9: handleCreateProjectWithIssues issues at most one create call to the
\* gateway, whatever it answers, and never a delete or cleanup call; after a
\* failure the invocation has ended with the failure reported.
NoRetryNoRollback ==
  tool = "create" =>
    /\ Len(calls) <= 1
    /\ \A i \in 1..Len(calls) : calls[i].op = "createProjectWithIssues"
    /\ Count(upstream, "createProject") <= 1
    /\ Count(upstream, "createIssues") <= 1
    /\ \A i \in 1..Len(upstream) : upstream[i].op \in {"createProject", "createIssues"}
    /\ (pc = "done" /\ CreateStepFailed => outcome.kind = "error")

\* C9 witness: the issue batch failed after the project was created, and the
\* invocation ended in an error with one create call made.
NoRetryNoRollbackWitness ==
  /\ pc = "done" /\ tool = "create" /\ gw.project = "ok" /\ gw.batch = "failed"
  /\ Len(calls) = 1 /\ Len(upstream) = 2 /\ outcome.kind = "error"

HasName == args.name.t = "string" /\ args.name.v # <<>>
HasTeamIdsArray == args.teamIds.t = "array" /\ args.teamIds.v # <<>>
TeamIdsNonEmpty == args.teamIds.t # "undefined" /\ args.teamIds.v # <<>>

OptedIn ==
  /\ args.includeIssues # Undef
  /\ args.includeIssues # Bool(FALSE)
  /\ args.includeIssues.v # <<>>

\* C11: handleGetProject calls searchIssues only when the caller opted in
\* and only after getProject returned a result with a project; without the
\* opt-in an invocation that reaches the gateway makes exactly one call,
\* getProject; and when searchIssues returns an issue list the JSON payload
\* is the project payload with that list attached as project.issues.
IssuesOnlyOnOptIn ==
  tool = "get" =>
    /\ \A i \in 1..Len(calls) :
         calls[i].op = "searchIssues" =>
           /\ OptedIn
           /\ i = 2
           /\ calls[1].op = "getProject"
           /\ gw.found = "project"
    /\ (~OptedIn /\ session /\ args.id # Undef) =>
         /\ Len(calls) = 1
         /\ calls[1].op = "getProject"
    /\ (pc = "done" /\ gw.has) =>
         /\ outcome.kind = "json"
         /\ outcome.payload[1].found = "project"
         /\ outcome.payload[1].issues = [has |-> TRUE, nodes |-> gw.nodes]

\* C11 witness: the caller opted in with a truthy value that is no boolean,
\* both calls were made and the two issues came back attached.
IssuesOnlyOnOptInWitness ==
  /\ pc = "done" /\ tool = "get" /\ args.includeIssues = Str(<<"yes">>)
  /\ Len(calls) = 2 /\ calls[2].op = "searchIssues"
  /\ gw.has /\ Len(gw.nodes) = 2
  /\ outcome.kind = "json" /\ Len(outcome.payload[1].issues.nodes) = 2

\* A gateway call of handleGetProject raised, and what it raised is an Error
\* whose message contains one of the two texts.
GatewayRaised == pc = "done" /\ tool = "get" /\ gw.error # NoErr

RaisedSignalsNotFound ==
  /\ gw.error.isError
  /\ \E i \in 1..Len(gw.error.message) :
       gw.error.message[i] \in {"Entity not found", "Could not find referenced Project"}

NotFoundText == <<"Project with ID ", args.id.v[1], " does not exist">>

\* C12: the not-found text answers an Error raised by either gateway call of
\* the inner try block (getProject, or searchIssues after an opt-in) whose
\* message contains 'Entity not found' or 'Could not find referenced
\* Project'; everything else those calls raise is re-thrown to handleError
\* with operation 'get project info'; an auth or required-parameter failure
\* raised before the inner try block is never turned into the not-found text.
NotFoundOnlyInsideTry ==
  /\ (GatewayRaised /\ RaisedSignalsNotFound) =>
       /\ outcome.kind = "text"
       /\ outcome.text = NotFoundText
  /\ (GatewayRaised /\ ~RaisedSignalsNotFound) =>
       /\ outcome.kind = "error"
       /\ outcome.text = <<"Failed to ", "get project info", ": ">> \o gw.error.message
  /\ (pc = "done" /\ tool = "get" /\ calls = <<>>) =>
       /\ outcome.kind = "error"
       /\ outcome.errKind \in {"AuthError", "ValidationError"}
       /\ outcome.text # <<"Project with ID ">> \o args.id.v \o <<" does not exist">>

\* C12 witness: searchIssues, the second call, raised 'Entity not found' and
\* the not-found text was returned.
NotFoundOnlyInsideTryWitness ==
  /\ GatewayRaised /\ RaisedSignalsNotFound
  /\ Len(calls) = 2 /\ calls[2].op = "searchIssues"
  /\ gw.found = "project"
  /\ outcome.kind = "text" /\ outcome.text = NotFoundText

====
